---- MODULE Spec2Model ----
(***************************************************************************)
(* Batch/track processing of backend/app/main.py: process_lote fans out    *)
(* one process_faixa task per track of a batch under an asyncio.Semaphore, *)
(* and process_faixa drives the track through generate / extend calls of   *)
(* the provider client.                                                    *)
(*                                                                         *)
(* Granularity: asyncio tasks are cooperative, so a step of a task is the  *)
(* code between two awaits.  The awaits of process_faixa are the           *)
(* semaphore acquire (main.py:216), custom_generate (main.py:233) and      *)
(* extend_audio (main.py:269); db.commit() is synchronous.                 *)
(*                                                                         *)
(* The provider is the environment: a call either raises or returns, and   *)
(* the artifact it leaves on disk has some size (or is missing).  The      *)
(* evaluation of the call's arguments (main.py:234-240) is part of the     *)
(* call: an exception raised there is a failed generate call (the          *)
(* argument faixa.metadata.get(...) reads an attribute that models.Faixa   *)
(* no longer declares as a column, models.py:71-72).  Database commits     *)
(* are taken to succeed.                                                   *)
(*                                                                         *)
(* create_lote (main.py:74-157) persists the Lote row, then one Faixa row   *)
(* per uploaded file, and schedules process_lote once; its awaits are the  *)
(* reads of the files.  A file that is not valid JSON or lacks letra or    *)
(* estilo ends the request with HTTP 400 at that point.                    *)
(*                                                                         *)
(* suno_client._wait_for_completion (suno_client.py:68-117), the polling    *)
(* loop of the client of the real provider, is modelled on its own: a step *)
(* is one turn of its while loop, the response of the status endpoint is   *)
(* the environment's choice.  main.py calls the stub client, so the batch  *)
(* specifications never start it.                                          *)
(*                                                                         *)
(* process_faixa creates no EventoFaixa row: eventos stays as create_lote  *)
(* left it.                                                                *)
(*                                                                         *)
(* The tasks of a batch acquire the semaphore in any order.  The rows of   *)
(* the batch exist while it is processed (nothing deletes a Faixa), so     *)
(* the early return of main.py:219-221 is not taken.                       *)
(***************************************************************************)
EXTENDS Integers, FiniteSets, Sequences, TLC

\* ---------------------------------------------------------------- bounds
MaxTracks == 3
MaxRetries == 3
MaxExtends == 3
MaxPollInterval == 3
MaxMaxWait == 6

\* ------------------------------------------------------ program constants
\* create_lote accepts 1 <= concurrency <= 4
MinConcurrency == 1
MaxConcurrency == 4
\* extend_seconds = 60.0
ExtendSeconds == 60
\* Python None of a nullable column or of a missing artifact file
None == 0 - 1

\* StatusEnum
SUBMETENDO == "submetendo"
GERANDO == "gerando"
OBTENDO == "obtendo"
ESTENDENDO == "estendendo"
BAIXANDO == "baixando"
FINALIZADA == "finalizada"
ERRO == "erro"
StatusEnum == {SUBMETENDO, GERANDO, OBTENDO, ESTENDENDO, BAIXANDO, FINALIZADA, ERRO}
Terminal == {FINALIZADA, ERRO}

\* str(exc) stored in faixa.erros: which provider call raised
GenerateError == "custom_generate raised"
ExtendError == "extend_audio raised"

\* ------------------------------------------------------- input domains
\* durations (seconds) the size of a downloaded artifact can stand for;
\* None is a missing file
TrackGenArqs == {None, 150, 200, 240, 300}
TrackExtArqs == {None, 30, 60}
TrackAlvos == {200, 240}
LoteGenArqs == {150, 180, 240}
LoteExtArqs == {60}
LoteAlvos == {240}
\* what the read of an uploaded file can yield
FileKinds == {"valid", "not_json", "missing_fields"}

VARIABLES
    lote,       \* the request's parameters (Lote.parametros) and len(files)
    faixas,     \* the persisted Faixa rows of the batch, in insertion order
    pc,         \* where each process_faixa task is
    sem,        \* value of the asyncio.Semaphore of process_lote
    coord,      \* where create_lote / process_lote is
    respostas,  \* what the provider returned to each track's calls so far
    lote_row,   \* whether the Lote row is persisted
    eventos,    \* the persisted EventoFaixa rows of every track
    agendados,  \* how many times process_lote was added as background task
    wfc         \* a call of suno_client._wait_for_completion

vars == <<lote, faixas, pc, sem, coord, respostas, lote_row, eventos, agendados, wfc>>

\* the tracks of the batch: lote.faixas
Tracks == DOMAIN faixas

\* a Faixa row as create_lote inserts it (column defaults of models.Faixa)
NovaFaixa ==
    [status |-> SUBMETENDO, tentativas |-> 0, extends_usados |-> 0,
     duracao_final |-> None, ids_suno |-> {}, caminho_arquivo |-> "none",
     erros |-> "none", tempo_submissao |-> FALSE, tempo_geracao |-> FALSE,
     tempo_download |-> FALSE]

\* a POST /lotes request has arrived; nothing of it is persisted yet
InitLote(ns, cs, rs, es, bs, alvos) ==
    /\ lote \in [n : ns, concurrency : cs, retries : rs, extends_max : es,
                 extend_enabled : bs, duracao_alvo : alvos]
    /\ faixas = <<>>
    /\ pc = [t \in 1..lote.n |-> "none"]
    /\ sem = 0
    /\ coord = "request"
    /\ respostas = [t \in 1..lote.n |-> [gen |-> {}, ext |-> {}]]
    /\ lote_row = FALSE
    /\ eventos = [t \in 1..lote.n |-> <<>>]
    /\ agendados = 0

\* main.py imports suno_client_stub: no call of _wait_for_completion is made
NotCalled == [pc |-> "not_called"]

InitWith(ns, cs, rs, es, bs, alvos) ==
    InitLote(ns, cs, rs, es, bs, alvos) /\ wfc = NotCalled

\* ------------------------------------------------ conditions of the code
\* while attempts <= retries
LoopCond(attempts, retries) == attempts <= retries

\* if faixa.duracao_final and faixa.duracao_final >= duracao_alvo
ReachedTarget(dur, alvo) == dur # None /\ dur # 0 /\ dur >= alvo

ShouldExtendUncapped(enabled, attempts, extends_max) == enabled

ShouldExtendIgnoringFlag(enabled, attempts, extends_max) == attempts <= extends_max

\* if extend_enabled and attempts <= extends_max
ShouldExtend(enabled, attempts, extends_max) == enabled /\ attempts <= extends_max

\* old_dur = faixa.duracao_final or 0
OldDur(dur) == IF dur = None THEN 0 ELSE dur

\* duration_est of the generated file, None when the file is missing
GenDuration(arq) == arq

\* ext_duration: from the file's size, extend_seconds when it is missing
ExtDuration(arq) == IF arq = None THEN ExtendSeconds ELSE arq

AcquireAlways(s) == TRUE

\* asyncio.Semaphore.acquire proceeds only while the value is positive
CanAcquire(s) == s > 0

\* ------------------------------------------------- pieces of process_faixa
\* finally: faixa.tempo_download = utcnow(); commit; close
Finally(f) == [f EXCEPT !.tempo_download = TRUE]

ExceptNoFinally(f, exc) == [f EXCEPT !.status = ERRO, !.erros = exc]

\* except Exception as exc: status = ERRO; erros = {"detail": str(exc)}
Except(f, exc) == Finally([f EXCEPT !.status = ERRO, !.erros = exc])

IterateResetsStatus(f, L) ==
    IF LoopCond(f.tentativas, L.retries)
    THEN [faixa |-> [f EXCEPT !.tentativas = @ + 1, !.status = GERANDO],
          pc |-> "generate"]
    ELSE [faixa |-> Finally([f EXCEPT !.status = ERRO]), pc |-> "done"]

\* the head of the while loop, up to the await of custom_generate; its else
\* branch when the condition is false
Iterate(f, L) ==
    IF LoopCond(f.tentativas, L.retries)
    THEN [faixa |-> [f EXCEPT !.tentativas = @ + 1], pc |-> "generate"]
    ELSE [faixa |-> Finally([f EXCEPT !.status = ERRO]), pc |-> "done"]

AfterGenerateNoExtend(f, L, arq) ==
    LET g == [f EXCEPT !.ids_suno = {"initial"},
                       !.caminho_arquivo = "initial",
                       !.tempo_geracao = TRUE,
                       !.duracao_final = GenDuration(arq)]
    IN  [faixa |-> Finally([g EXCEPT !.status = FINALIZADA]), pc |-> "done"]

\* from the return of custom_generate to the next await or the end
AfterGenerate(f, L, arq) ==
    LET g == [f EXCEPT !.ids_suno = {"initial"},
                       !.caminho_arquivo = "initial",
                       !.tempo_geracao = TRUE,
                       !.duracao_final = GenDuration(arq)]
    IN  IF ReachedTarget(g.duracao_final, L.duracao_alvo)
        THEN [faixa |-> Finally([g EXCEPT !.status = FINALIZADA]), pc |-> "done"]
        ELSE IF ShouldExtend(L.extend_enabled, g.tentativas, L.extends_max)
        THEN [faixa |-> [g EXCEPT !.status = ESTENDENDO], pc |-> "extend"]
        ELSE [faixa |-> Finally([g EXCEPT !.status = FINALIZADA]), pc |-> "done"]

\* f"extend_{faixa.extends_usados}"
ExtendKey(n) == "extend_" \o ToString(n)

AfterExtendNoBreak(f, L, arq) ==
    LET g == [f EXCEPT !.extends_usados = @ + 1,
                       !.ids_suno = @ \cup {ExtendKey(f.extends_usados + 1)},
                       !.duracao_final = OldDur(@) + ExtDuration(arq),
                       !.caminho_arquivo = "extend"]
    IN  IF g.duracao_final >= L.duracao_alvo
        THEN Iterate([g EXCEPT !.status = FINALIZADA], L)
        ELSE Iterate(g, L)

\* from the return of extend_audio to the next await or the end
AfterExtend(f, L, arq) ==
    LET g == [f EXCEPT !.extends_usados = @ + 1,
                       !.ids_suno = @ \cup {ExtendKey(f.extends_usados + 1)},
                       !.duracao_final = OldDur(@) + ExtDuration(arq),
                       !.caminho_arquivo = "extend"]
    IN  IF g.duracao_final >= L.duracao_alvo
        THEN [faixa |-> Finally([g EXCEPT !.status = FINALIZADA]), pc |-> "done"]
        ELSE Iterate(g, L)

ReleaseNever(s, newpc) == s

\* the semaphore after a step of a task that held a slot: released on exit
Release(s, newpc) == IF newpc = "done" THEN s + 1 ELSE s

\* -------------------------------------------------------------- create_lote
\* if concurrency < 1 or concurrency > 4: raise HTTPException(400)
ConcurrencyOK(c) == c >= MinConcurrency /\ c <= MaxConcurrency

FilesLeftButLast(k, n) == k < n - 1

\* for file in files: k files have been read and persisted, of n
FilesLeft(k, n) == k < n

\* json.loads succeeded and the object has letra and estilo
FileOK(kind) == kind = "valid"

\* the concurrency check, then the Lote row is added and committed
CreateLoteBegin ==
    /\ coord = "request"
    /\ IF ConcurrencyOK(lote.concurrency)
       THEN coord' = "intake" /\ lote_row' = TRUE
       ELSE coord' = "rejected" /\ lote_row' = FALSE
    /\ UNCHANGED <<lote, faixas, pc, sem, respostas, eventos, agendados, wfc>>

\* one turn of the loop over the files: the file is read and checked; a
\* valid one becomes a committed Faixa row, another one ends the request
CreateLoteFile(kind) ==
    /\ coord = "intake"
    /\ FilesLeft(Len(faixas), lote.n)
    /\ IF FileOK(kind)
       THEN faixas' = Append(faixas, NovaFaixa) /\ coord' = coord
       ELSE faixas' = faixas /\ coord' = "rejected"
    /\ UNCHANGED <<lote, pc, sem, respostas, lote_row, eventos, agendados, wfc>>

CreateLoteFileStep == \E kind \in FileKinds : CreateLoteFile(kind)

CreateLoteScheduleEarly ==
    /\ coord = "intake"
    /\ coord' = "scheduled"
    /\ agendados' = agendados + 1
    /\ UNCHANGED <<lote, faixas, pc, sem, respostas, lote_row, eventos, wfc>>

\* background_tasks.add_task(process_lote, ...); the response is returned
CreateLoteSchedule ==
    /\ coord = "intake"
    /\ ~FilesLeft(Len(faixas), lote.n)
    /\ coord' = "scheduled"
    /\ agendados' = agendados + 1
    /\ UNCHANGED <<lote, faixas, pc, sem, respostas, lote_row, eventos, wfc>>

\* ------------------------------------------------------------ process_lote
ProcessLoteStartMarksGerando ==
    /\ coord = "scheduled"
    /\ coord' = "gathering"
    /\ sem' = lote.concurrency
    /\ pc' = [t \in DOMAIN pc |-> IF t \in Tracks THEN "waiting" ELSE pc[t]]
    /\ faixas' = [t \in Tracks |-> [faixas[t] EXCEPT !.status = GERANDO]]
    /\ UNCHANGED <<lote, respostas, lote_row, eventos, agendados, wfc>>

\* sem = Semaphore(concurrency); one task per faixa; await gather
ProcessLoteStart ==
    /\ coord = "scheduled"
    /\ coord' = "gathering"
    /\ sem' = lote.concurrency
    /\ pc' = [t \in DOMAIN pc |-> IF t \in Tracks THEN "waiting" ELSE pc[t]]
    /\ UNCHANGED <<lote, faixas, respostas, lote_row, eventos, agendados, wfc>>

\* async with database.engine.begin(): the engine of database.py is a
\* synchronous Engine, whose begin() has no __aenter__; the statement raises
\* before any task is created
ProcessLoteRaises ==
    /\ coord = "scheduled"
    /\ coord' = "raised"
    /\ UNCHANGED <<lote, faixas, pc, sem, respostas, lote_row, eventos, agendados, wfc>>

ProcessLoteReturnEarly ==
    /\ coord = "gathering"
    /\ coord' = "returned"
    /\ UNCHANGED <<lote, faixas, pc, sem, respostas, lote_row, eventos, agendados, wfc>>

\* gather returns when every task has finished; db.close()
ProcessLoteReturn ==
    /\ coord = "gathering"
    /\ \A t \in Tracks : pc[t] = "done"
    /\ coord' = "returned"
    /\ UNCHANGED <<lote, faixas, pc, sem, respostas, lote_row, eventos, agendados, wfc>>

\* ----------------------------------------------------------- process_faixa
Step(t, r, s) ==
    /\ faixas' = [faixas EXCEPT ![t] = r.faixa]
    /\ pc' = [pc EXCEPT ![t] = r.pc]
    /\ sem' = Release(s, r.pc)
    /\ UNCHANGED <<lote, coord, lote_row, eventos, agendados, wfc>>

\* async with sem: ... status = GERANDO ... up to the first generate call
Acquire(t) ==
    /\ pc[t] = "waiting"
    /\ CanAcquire(sem)
    /\ Step(t, Iterate([faixas[t] EXCEPT !.tempo_submissao = TRUE,
                                         !.status = GERANDO], lote), sem - 1)
    /\ UNCHANGED respostas

GenerateRaisesEscapes(t) ==
    /\ pc[t] = "generate"
    /\ pc' = [pc EXCEPT ![t] = "done"]
    /\ sem' = sem + 1
    /\ coord' = "raised"
    /\ UNCHANGED <<lote, faixas, respostas, lote_row, eventos, agendados, wfc>>

\* custom_generate (or the evaluation of its arguments) raises: except, finally
GenerateRaises(t) ==
    /\ pc[t] = "generate"
    /\ Step(t, [faixa |-> Except(faixas[t], GenerateError), pc |-> "done"], sem)
    /\ UNCHANGED respostas

GenerateReturns(t, arq) ==
    /\ pc[t] = "generate"
    /\ Step(t, AfterGenerate(faixas[t], lote, arq), sem)
    /\ respostas' = [respostas EXCEPT ![t].gen = @ \cup {GenDuration(arq)}]

ExtendRaises(t) ==
    /\ pc[t] = "extend"
    /\ Step(t, [faixa |-> Except(faixas[t], ExtendError), pc |-> "done"], sem)
    /\ UNCHANGED respostas

ExtendReturns(t, arq) ==
    /\ pc[t] = "extend"
    /\ Step(t, AfterExtend(faixas[t], lote, arq), sem)
    /\ respostas' = [respostas EXCEPT ![t].ext = @ \cup {ExtDuration(arq)}]

\* the steps of the tasks of the batch, over the provider's possible answers
AcquireStep == \E t \in Tracks : Acquire(t)
GenerateRaisesStep == \E t \in Tracks : GenerateRaises(t)
GenerateReturnsStep(gens) == \E t \in Tracks, arq \in gens : GenerateReturns(t, arq)
ExtendRaisesStep == \E t \in Tracks : ExtendRaises(t)
ExtendReturnsStep(exts) == \E t \in Tracks, arq \in exts : ExtendReturns(t, arq)

NextWith(gens, exts) ==
    \/ CreateLoteBegin
    \/ CreateLoteFileStep
    \/ CreateLoteSchedule
    \/ ProcessLoteStart
    \/ ProcessLoteRaises
    \/ ProcessLoteReturn
    \/ AcquireStep
    \/ GenerateRaisesStep
    \/ GenerateReturnsStep(gens)
    \/ ExtendRaisesStep
    \/ ExtendReturnsStep(exts)

\* a batch of up to MaxTracks tracks
Init ==
    InitWith(1..MaxTracks, (MinConcurrency - 1)..(MaxConcurrency + 1), {0, 1}, {0, 1},
             BOOLEAN, LoteAlvos)
Next == NextWith(LoteGenArqs, LoteExtArqs)
Spec == Init /\ [][Next]_vars

\* what the event loop guarantees: a coroutine that can run does run.  The
\* provider's answers are not among these steps.
AcquireOf(t) == t \in Tracks /\ Acquire(t)
ProgramFairness ==
    /\ WF_vars(CreateLoteBegin)
    /\ WF_vars(CreateLoteFileStep)
    /\ WF_vars(CreateLoteSchedule)
    /\ WF_vars(ProcessLoteStart \/ ProcessLoteRaises)
    /\ WF_vars(ProcessLoteReturn)
    /\ \A t \in 1..MaxTracks : WF_vars(AcquireOf(t))
FairSpec == Spec /\ ProgramFairness

\* the same, with a provider that answers every call (returns or raises)
AnswerOf(t) ==
    /\ t \in Tracks
    /\ \/ GenerateRaises(t)
       \/ \E arq \in LoteGenArqs : GenerateReturns(t, arq)
       \/ ExtendRaises(t)
       \/ \E arq \in LoteExtArqs : ExtendReturns(t, arq)
ProviderAnswers == \A t \in 1..MaxTracks : WF_vars(AnswerOf(t))
FairSpecAnswered == Spec /\ ProgramFairness /\ ProviderAnswers

\* one track, every combination of the parameters
InitFaixa ==
    InitWith({1}, {MinConcurrency}, (0 - 1)..MaxRetries, (0 - 1)..MaxExtends,
             BOOLEAN, TrackAlvos)
NextFaixa == NextWith(TrackGenArqs, TrackExtArqs)
SpecFaixa == InitFaixa /\ [][NextFaixa]_vars

\* ------------------------------------- suno_client._wait_for_completion
\* what one GET of /generate/record-info can yield
PollKinds == {"http_error", "pending", "success", "success_bad_tracks",
              "failure", "get_raises"}

\* elapsed, POLL_INTERVAL and MAX_WAIT are Python floats (IEEE 754 binary64).
\* A float x >= 0 is held exactly as x = i + fh / 2^28 + fl / 2^56: every
\* binary64 value in [1/16, 16) is a multiple of 2^-56.
Limb == 2 ^ 28
FromInt(n) == [i |-> n, fh |-> 0, fl |-> 0]
\* float("0.1") = 0x1.999999999999ap-4 = 7205759403792794 / 2^56
Tenth == [i |-> 0, fh |-> 26843545, fl |-> 161061274]

\* a + b without rounding
FAddExact(a, b) ==
    LET lo == a.fl + b.fl
        hi == a.fh + b.fh + (lo \div Limb)
    IN  [i |-> a.i + b.i + (hi \div Limb), fh |-> hi % Limb, fl |-> lo % Limb]

RECURSIVE Log2(_)
Log2(n) == IF n <= 1 THEN 0 ELSE 1 + Log2(n \div 2)

\* the bits of the 2^-56 grid below the 53-bit significand of x:
\* x in [2^k, 2^(k+1)) has unit in the last place 2^(k-52)
DroppedBits(x) ==
    IF x.i >= 1 THEN Log2(x.i) + 4
    ELSE IF x.fh >= 1 THEN Log2(x.fh) - 28 + 4
    ELSE 0

\* round to nearest binary64, ties to even
FRound(x) ==
    LET d == DroppedBits(x) IN
    IF d <= 0 THEN x
    ELSE LET q == 2 ^ d
             r == x.fl % q
             down == [x EXCEPT !.fl = @ - r]
             up == r > q \div 2 \/ (r = q \div 2 /\ (down.fl \div q) % 2 = 1)
         IN  IF up THEN FAddExact(down, [i |-> 0, fh |-> 0, fl |-> q]) ELSE down

\* the float addition of elapsed += POLL_INTERVAL
FAdd(a, b) == FRound(FAddExact(a, b))

\* a < b
FLess(a, b) ==
    \/ a.i < b.i
    \/ a.i = b.i /\ a.fh < b.fh
    \/ a.i = b.i /\ a.fh = b.fh /\ a.fl < b.fl

\* the values of float(os.environ.get("SUNO_POLL_INTERVAL", 5.0)) and of
\* float(os.environ.get("SUNO_MAX_WAIT", 600.0)) taken here
PollIntervals == {Tenth} \cup {FromInt(n) : n \in 1..MaxPollInterval}
MaxWaits == {FromInt(n) : n \in 0..MaxMaxWait}

\* elapsed = 0.0 with POLL_INTERVAL and MAX_WAIT as the environment set them
WaitCall(interval, max_wait) ==
    [pc |-> "loop", elapsed |-> FromInt(0), polls |-> 0, last |-> "none", exc |-> "none",
     POLL_INTERVAL |-> interval, MAX_WAIT |-> max_wait]

\* while elapsed < MAX_WAIT
WaitCond(w) == FLess(w.elapsed, w.MAX_WAIT)

\* the turn returns the track list: status SUCCESS with a list (or one dict)
PollReturns(kind) == kind = "success"

\* one turn of the loop: the GET, then either the return of the tracks or
\* sleep(POLL_INTERVAL) and elapsed += POLL_INTERVAL.  The exceptions raised
\* inside the try (lines 108 and 112, or by the GET) are caught at line 113.
AfterPoll(w, kind) ==
    IF PollReturns(kind)
    THEN [w EXCEPT !.pc = "returned", !.polls = @ + 1, !.last = kind]
    ELSE [w EXCEPT !.elapsed = FAdd(@, w.POLL_INTERVAL), !.polls = @ + 1,
                   !.last = kind]

WaitPoll(kind) ==
    /\ wfc.pc = "loop"
    /\ WaitCond(wfc)
    /\ wfc' = AfterPoll(wfc, kind)
    /\ UNCHANGED <<lote, faixas, pc, sem, coord, respostas, lote_row, eventos, agendados>>

WaitPollStep == \E kind \in PollKinds : WaitPoll(kind)

\* the loop condition is false: raise TimeoutError
WaitTimeout ==
    /\ wfc.pc = "loop"
    /\ ~WaitCond(wfc)
    /\ wfc' = [wfc EXCEPT !.pc = "raised", !.exc = "TimeoutError"]
    /\ UNCHANGED <<lote, faixas, pc, sem, coord, respostas, lote_row, eventos, agendados>>

\* a call of _wait_for_completion, for every small POLL_INTERVAL and MAX_WAIT
InitWait ==
    /\ InitLote({1}, {MinConcurrency}, {0}, {0}, {FALSE}, LoteAlvos)
    /\ wfc \in {WaitCall(i, m) : i \in PollIntervals, m \in MaxWaits}
NextWait == WaitPollStep \/ WaitTimeout
SpecWait == InitWait /\ [][NextWait]_vars

TypeOK ==
    /\ coord \in {"request", "intake", "rejected", "scheduled", "gathering",
                 "returned", "raised"}
    /\ lote_row \in BOOLEAN
    /\ Len(faixas) <= lote.n
    /\ \A t \in Tracks :
        /\ pc[t] \in {"none", "waiting", "generate", "extend", "done"}
        /\ faixas[t].status \in StatusEnum

\* ------------------------------------------------------------------ claims
\* tracks whose task is awaiting custom_generate or extend_audio
InFlight == {t \in Tracks : pc[t] \in {"generate", "extend"}}

Done(t) == pc[t] = "done"

\* C1: at any instant the number of tracks of the batch with a generate or
\* extend call in flight is at most the batch's concurrency.
C1_NetworkPhaseBound == Cardinality(InFlight) <= lote.concurrency

\* three tracks under concurrency 1: one finished, one extending, one waiting
C1_Witness ==
    /\ Len(faixas) = 3 /\ lote.concurrency = 1
    /\ \E t \in Tracks, u \in Tracks, v \in Tracks :
        pc[t] = "done" /\ pc[u] = "extend" /\ pc[v] = "waiting"

\* C2: a status that is FINALIZADA or ERRO is never changed by a later step.
C2_TerminalStatusStays ==
    [][\A t \in Tracks :
        faixas[t].status \in Terminal => faixas'[t].status = faixas[t].status]_vars

\* the batch has returned with one track finalized after an extension and
\* another one in ERRO through the exception handler
C2_Witness ==
    /\ coord = "returned"
    /\ \E t \in Tracks, u \in Tracks :
        /\ faixas[t].status = FINALIZADA /\ faixas[t].extends_usados > 0
        /\ faixas[t].tempo_download
        /\ faixas[u].status = ERRO /\ faixas[u].erros = ExtendError
        /\ faixas[u].tempo_download

\* C3: a generate call that fails on an attempt below the retry limit is
\* followed by another attempt, so a track is in ERRO because of a failed
\* generate call only when its attempt counter has reached the retry limit.
C3_FailedAttemptIsRetried ==
    \A t \in Tracks :
        (faixas[t].status = ERRO /\ faixas[t].erros = GenerateError)
            => faixas[t].tentativas >= lote.retries

\* C4: a track none of whose generate calls succeeded ends in ERRO with its
\* attempt counter equal to the retry limit, an error detail, and no extend.
C4_ExhaustedRetries ==
    \A t \in Tracks :
        (Done(t) /\ lote.retries >= 1 /\ faixas[t].tentativas >= 1
                 /\ respostas[t].gen = {})
            => /\ faixas[t].status = ERRO
               /\ faixas[t].tentativas = lote.retries
               /\ faixas[t].erros # "none"
               /\ faixas[t].extends_usados = 0 /\ respostas[t].ext = {}

\* C5: when an extend call fails the job ends in FINALIZADA with the
\* estimated duration it had before the call.
C5_ExtendFailureIsNotFatal ==
    [][\A t \in Tracks :
        (pc[t] = "extend" /\ pc'[t] = "done"
            /\ faixas'[t].extends_usados = faixas[t].extends_usados)
        => /\ faixas'[t].status = FINALIZADA
           /\ faixas'[t].duracao_final = faixas[t].duracao_final]_vars

\* the smallest k <= max with d + k*e >= alvo, max when there is none
RECURSIVE ExtendsNeeded(_, _, _, _)
ExtendsNeeded(d, e, alvo, max) ==
    IF d >= alvo \/ max <= 0 THEN 0
    ELSE 1 + ExtendsNeeded(d + e, e, alvo, max - 1)

\* C6: with extension enabled, a generation of duration d below the target
\* and extends that each add e, the track ends FINALIZADA with k extends and
\* duration d + k*e, k the extends needed to reach the target, capped.
C6_ExtendsToTarget ==
    \A t \in Tracks, d \in TrackGenArqs \ {None}, e \in {ExtDuration(a) : a \in TrackExtArqs} :
        LET k == ExtendsNeeded(d, e, lote.duracao_alvo, lote.extends_max) IN
        (/\ Done(t) /\ lote.extend_enabled /\ lote.retries >= 1
         /\ faixas[t].erros = "none"
         /\ respostas[t].gen = {d} /\ d < lote.duracao_alvo
         /\ respostas[t].ext \subseteq {e})
        => /\ faixas[t].status = FINALIZADA
           /\ faixas[t].extends_usados = k
           /\ faixas[t].duracao_final = d + k * e

\* C7: the attempt counter never exceeds the retry limit.
C7_AttemptsWithinRetries ==
    \A t \in Tracks : lote.retries >= 1 => faixas[t].tentativas <= lote.retries

\* C8: the extends-used counter never exceeds max-extends (max-extends >= 0).
C8_ExtendsWithinMax ==
    \A t \in Tracks :
        lote.extends_max >= 0 => faixas[t].extends_usados <= lote.extends_max

\* the extend budget is used up and a later attempt finalized without extending
C8_Witness ==
    \E t \in Tracks :
        /\ Done(t) /\ lote.extends_max >= 2
        /\ faixas[t].extends_usados = lote.extends_max
        /\ faixas[t].tentativas > lote.extends_max
        /\ faixas[t].status = FINALIZADA

\* C9: once known, the stored estimated duration never decreases.
C9_DurationNeverDecreases ==
    [][\A t \in Tracks :
        (faixas[t].duracao_final # None /\ faixas'[t].duracao_final # None)
            => faixas'[t].duracao_final >= faixas[t].duracao_final]_vars

\* C10: a track none of whose provider calls failed ends in FINALIZADA.
C10_SuccessEndsFinalized ==
    \A t \in Tracks :
        (Done(t) /\ lote.retries >= 0 /\ faixas[t].erros = "none")
            => faixas[t].status = FINALIZADA

\* C11: a generate or extend call in flight ends by the per-attempt deadline
\* even when the provider never answers, so the track reaches a terminal
\* status and its task finishes (releasing its slot).
C11_CallsEndByDeadline ==
    \A t \in 1..MaxTracks :
        (t \in Tracks /\ pc[t] \in {"generate", "extend"})
            ~> (t \in Tracks /\ pc[t] = "done" /\ faixas[t].status \in Terminal)

\* C12: process_lote has returned only if every task of the batch has
\* finished with its track FINALIZADA or ERRO.
C12_ReturnsAfterAllTerminal ==
    coord = "returned"
        => \A t \in Tracks : pc[t] = "done" /\ faixas[t].status \in Terminal

\* process_lote returned for a batch of several tracks run one at a time
C12_Witness ==
    /\ coord = "returned" /\ Len(faixas) >= 2 /\ lote.concurrency = 1
    /\ \E t \in Tracks : faixas[t].status = FINALIZADA
    /\ \E t \in Tracks : faixas[t].status = ERRO /\ faixas[t].erros = GenerateError

\* C13: the step in which a track's generate or extend call fails changes
\* nothing of any sibling track or task and does not reach process_lote.
C13_FailureStaysInItsTrack ==
    [][\A t \in Tracks :
        (pc[t] \in {"generate", "extend"} /\ pc'[t] = "done"
            /\ faixas'[t].status # FINALIZADA)
        => /\ coord' = coord
           /\ \A u \in Tracks \ {t} :
                /\ faixas'[u] = faixas[u]
                /\ pc'[u] = pc[u]
                /\ respostas'[u] = respostas[u]]_vars

\* under concurrency 1, a sibling is extending after a track failed and
\* gave its slot back
C13_Witness ==
    /\ lote.concurrency = 1 /\ coord = "gathering"
    /\ \E t \in Tracks, u \in Tracks :
        /\ faixas[t].status = ERRO /\ faixas[t].erros # "none" /\ pc[t] = "done"
        /\ pc[u] = "extend" /\ faixas[u].status = ESTENDENDO

\* C14: with a provider that answers every call, a scheduled batch ends with
\* process_lote returned and every track FINALIZADA or ERRO.
C14_BatchTerminates ==
    (coord = "scheduled")
        ~> (coord = "returned" /\ \A t \in Tracks : faixas[t].status \in Terminal)

\* C15: a track in ERRO has an error detail.
C15_ErrorHasDetail ==
    \A t \in Tracks : faixas[t].status = ERRO => faixas[t].erros # "none"

\* timestamps of a track's events, in the order of the log
StrictlyIncreasing(log) ==
    \A i \in 1..Len(log), j \in 1..Len(log) :
        i < j => log[i].timestamp < log[j].timestamp

\* C16: a terminal track has a non-empty event log, in strictly increasing
\* timestamp order.
C16_TerminalTrackHasEvents ==
    \A t \in Tracks :
        faixas[t].status \in Terminal
            => Len(eventos[t]) >= 1 /\ StrictlyIncreasing(eventos[t])

\* C17: a track that is FINALIZADA or ERRO has its completion timestamp set.
C17_TerminalHasCompletionTime ==
    \A t \in Tracks : faixas[t].status \in Terminal => faixas[t].tempo_download

\* a track ended by the exception handler, with its completion timestamp
C17_Witness ==
    \E t \in Tracks :
        /\ faixas[t].status = ERRO /\ faixas[t].erros = GenerateError
        /\ faixas[t].tempo_download /\ ~faixas[t].tempo_geracao

\* C18: when create_lote has accepted the request and scheduled processing,
\* the batch has exactly total_arquivos tracks, each SUBMETENDO with attempt
\* counter 0 and extends-used 0.
C18_IntakeCreatesAllTracks ==
    coord = "scheduled"
        => /\ lote_row
           /\ Len(faixas) = lote.n
           /\ \A t \in Tracks :
                /\ faixas[t].status = SUBMETENDO
                /\ faixas[t].tentativas = 0
                /\ faixas[t].extends_usados = 0

\* a request of three valid files was accepted
C18_Witness == coord = "scheduled" /\ Len(faixas) = 3 /\ lote.n = 3

\* C19: once a generate call has succeeded for a track, no generate call is
\* started for it again.
C19_NoGenerateAfterSuccess ==
    [][\A t \in Tracks :
        "initial" \in faixas[t].ids_suno
            => ~(pc[t] # "generate" /\ pc'[t] = "generate")]_vars

\* C20: an extend call is in flight only with extension enabled, after a
\* successful generation, and with the estimated duration below the target.
C20_ExtendOnlyWhenDue ==
    \A t \in Tracks :
        pc[t] = "extend"
            => /\ lote.extend_enabled
               /\ "initial" \in faixas[t].ids_suno /\ respostas[t].gen # {}
               /\ faixas[t].duracao_final < lote.duracao_alvo

\* an extend call of a second iteration is in flight
C20_Witness ==
    \E t \in Tracks :
        /\ pc[t] = "extend" /\ faixas[t].tentativas >= 2
        /\ faixas[t].duracao_final # None

\* C21: no extend call is in flight while the track's estimated duration is
\* unknown.
C21_NoExtendOnUnknownDuration ==
    \A t \in Tracks : pc[t] = "extend" => faixas[t].duracao_final # None

\* the status changes the claim allows
AllowedChange(old, new) ==
    \/ old = SUBMETENDO /\ new = GERANDO
    \/ old = GERANDO /\ new = ESTENDENDO
    \/ old = GERANDO /\ new = FINALIZADA
    \/ old = ESTENDENDO /\ new = FINALIZADA
    \/ old \notin Terminal /\ new = ERRO

\* C22: every change of a track's status is SUBMETENDO->GERANDO,
\* GERANDO->ESTENDENDO, GERANDO->FINALIZADA, ESTENDENDO->FINALIZADA or
\* non-terminal->ERRO, and no track is ever OBTENDO or BAIXANDO.
C22_StatusChanges ==
    [][\A t \in Tracks :
        /\ faixas'[t].status \notin {OBTENDO, BAIXANDO}
        /\ faixas'[t].status # faixas[t].status
            => AllowedChange(faixas[t].status, faixas'[t].status)]_vars

\* generate is awaited again after an extend, the status still ESTENDENDO
C22_Witness ==
    \E t \in Tracks :
        /\ pc[t] = "generate" /\ faixas[t].status = ESTENDENDO
        /\ faixas[t].tentativas = 2 /\ faixas[t].extends_usados = 1

\* C23: while the tasks run, the free slots plus the tasks with a call in
\* flight are the batch's concurrency; when process_lote has returned all
\* slots are free.
C23_SlotsHeldAndReleased ==
    /\ coord = "gathering" => sem + Cardinality(InFlight) = lote.concurrency
    /\ coord = "gathering" => \A t \in Tracks : pc[t] \in {"waiting", "done"} \/ t \in InFlight
    /\ coord = "returned" => sem = lote.concurrency

\* three tracks under concurrency 2 ended on all three exits (finalized,
\* exhausted, exception) and both slots are free
C23_Witness ==
    /\ coord = "returned" /\ lote.concurrency = 2 /\ sem = 2 /\ Len(faixas) = 3
    /\ \E t \in Tracks, u \in Tracks, v \in Tracks :
        /\ faixas[t].status = FINALIZADA
        /\ faixas[u].status = ERRO /\ faixas[u].erros = "none"
        /\ faixas[v].status = ERRO /\ faixas[v].erros # "none"

\* C24: ids_suno has "initial" after a successful generation and "extend_n"
\* for every n from 1 to extends_usados.
C24_IdsSunoComplete ==
    \A t \in Tracks :
        /\ respostas[t].gen # {} => "initial" \in faixas[t].ids_suno
        /\ \A n \in 1..faixas[t].extends_usados :
            ExtendKey(n) \in faixas[t].ids_suno

\* C25: a FINALIZADA track's caminho_arquivo is the artifact of the last
\* successful extend when extends_usados > 0, of the generation otherwise.
C25_ArtifactIsLatest ==
    \A t \in Tracks :
        faixas[t].status = FINALIZADA
            => faixas[t].caminho_arquivo =
                 IF faixas[t].extends_usados > 0 THEN "extend" ELSE "initial"

\* C26: process_lote is scheduled at most once, by a step taken when the
\* Lote row and all n tracks are persisted in SUBMETENDO; a rejected request
\* has scheduled nothing and an accepted one has scheduled exactly once.
C26_ScheduledOnceAfterIntake ==
    [][/\ agendados' # agendados
          => /\ agendados = 0 /\ agendados' = 1
             /\ lote_row /\ Len(faixas) = lote.n
             /\ \A t \in Tracks : faixas[t].status = SUBMETENDO
       /\ coord' = "rejected" => agendados' = 0
       /\ coord' \in {"scheduled", "gathering", "returned", "raised"}
          => agendados' = 1]_vars

\* an accepted request of two files is being processed, scheduled once
C26_Witness == agendados = 1 /\ coord = "gathering" /\ Len(faixas) = 2

\* C27: after a poll that reported FAILURE, FAILED or ERROR the call has
\* raised that failure and polls no more.
C27_FailureIsRaised ==
    (wfc.pc # "not_called" /\ wfc.last = "failure")
        => wfc.pc = "raised" /\ wfc.exc = "failure"

\* C28: a track is FINALIZADA with an estimated duration below the target
\* (or unknown) only if extension is disabled or extends_usados equals
\* extends_max (for extends_max >= 0).
C28_ShortOnlyWithoutBudget ==
    \A t \in Tracks :
        (/\ faixas[t].status = FINALIZADA
         /\ faixas[t].duracao_final < lote.duracao_alvo
         /\ lote.extends_max >= 0)
        => \/ ~lote.extend_enabled
           \/ faixas[t].extends_usados = lote.extends_max

\* a short track finalized with extension enabled after two extends
C28_Witness ==
    \E t \in Tracks :
        /\ faixas[t].status = FINALIZADA /\ lote.extend_enabled
        /\ faixas[t].duracao_final # None
        /\ faixas[t].duracao_final < lote.duracao_alvo
        /\ faixas[t].extends_usados = 2 /\ lote.extends_max = 2

\* tracks whose stored status is GERANDO or ESTENDENDO
Active == {t \in Tracks : faixas[t].status \in {GERANDO, ESTENDENDO}}

\* C29: at most concurrency tracks are GERANDO or ESTENDENDO, and a track
\* whose task has not acquired a slot is SUBMETENDO with attempt counter 0
\* and no submission timestamp.
C29_ActiveStatusBound ==
    /\ Cardinality(Active) <= lote.concurrency
    /\ \A t \in Tracks :
        pc[t] \in {"none", "waiting"}
            => /\ faixas[t].status = SUBMETENDO
               /\ faixas[t].tentativas = 0
               /\ ~faixas[t].tempo_submissao

\* three tracks under concurrency 2: one GERANDO, one ESTENDENDO, one waiting
C29_Witness ==
    /\ Len(faixas) = 3 /\ lote.concurrency = 2
    /\ \E t \in Tracks, u \in Tracks, v \in Tracks :
        /\ faixas[t].status = GERANDO /\ pc[t] = "generate"
        /\ faixas[u].status = ESTENDENDO /\ pc[u] = "extend"
        /\ pc[v] = "waiting"

\* C30: after create_lote rejected the request, no Lote row and no Faixa row
\* of the request is persisted.
C30_RejectionLeavesNothing ==
    coord = "rejected" => ~lote_row /\ Len(faixas) = 0

\* ceil(max_wait / interval) for interval > 0: the least k with
\* k * interval >= max_wait, the multiples being exact
RECURSIVE CeilPolls(_, _, _)
CeilPolls(acc, interval, max_wait) ==
    IF ~FLess(acc, max_wait) THEN 0
    ELSE 1 + CeilPolls(FAddExact(acc, interval), interval, max_wait)

\* C31: with POLL_INTERVAL > 0 a call of _wait_for_completion makes at most
\* ceil(MAX_WAIT / POLL_INTERVAL) status polls before it returns or raises.
C31_PollsWithinCeiling ==
    (wfc.pc # "not_called" /\ FLess(FromInt(0), wfc.POLL_INTERVAL))
        => wfc.polls <= CeilPolls(FromInt(0), wfc.POLL_INTERVAL, wfc.MAX_WAIT)
====
